---- MODULE Spec2Model ----
(***************************************************************************)
(* A model of src/main.py, the single-file Flask portfolio site: the       *)
(* SQLite store (three AUTOINCREMENT tables, one writer at a time), the     *)
(* per-context connection kept in flask.g, the start-up init_db, the eleven *)
(* routes, the Jinja rendering of rows into pages and the flash messages    *)
(* kept in each client's session cookie.                                    *)
(*                                                                          *)
(* A client has at most one request in flight; requests of different        *)
(* clients run concurrently (the development server is threaded).  A write  *)
(* handler is two steps, the INSERT and the commit, because other requests  *)
(* run between them; a read handler is one step.  Every request ends with   *)
(* the teardown of its application context.                                 *)
(***************************************************************************)
EXTENDS Integers, Sequences, FiniteSets, TLC

VARIABLES
    main_pc,          \* the process: "start", "init_db" (inside the app context), "serving"
    restarts,         \* how many times the process has been started again
    tables,           \* names of the tables that exist in portfolio.db
    db,               \* committed rows: [projects, posts, messages], each a set of rows
    sqlite_sequence,  \* AUTOINCREMENT: the largest rowid ever committed, per table
    writer,           \* the context whose connection holds SQLite's write lock, or NoCtx
    pending,          \* per context: the uncommitted INSERT of its open transaction
    g,                \* per context: flask.g._database is set
    connected,        \* per context: sqlite3.connect calls made in the current context
    open_conns,       \* per context: connections it opened that are not closed
    pc,               \* per client: "idle", "inserted", "teardown"
    req,              \* per client: the request in flight
    resp,             \* per client: the response of the handler
    flashes           \* per client: session['_flashes'] of the client's cookie

vars == <<main_pc, restarts, tables, db, sqlite_sequence, writer, pending, g,
          connected, open_conns, pc, req, resp, flashes>>

----------------------------------------------------------------------------
(* Bounds of the model. *)

\* Rows that requests may add, over the three tables, with two concurrent clients.
MaxInserts == 2
\* Rows that requests may add, over the three tables, when every form is sent.
FormInserts == 1
\* A client sends no write while its cookie holds this many undisplayed flashes.
MaxFlash == 2
\* Times the process is started again on the same database file.
MaxRestarts == 1
\* In the listing specification a table grows to its page's LIMIT plus this many rows.
ListExtra == 1

(* Program constants. *)
HomeLimit == 3
ContactLimit == 5

\* SQLite's integers have 64 bits and Python's have no bound: sqlite3 raises
\* OverflowError when it is given a larger one to bind.  IntMax stands for
\* 2^63 - 1; it lies above every rowid that the bounds let a table reach.
IntMax == MaxInserts + FormInserts + ListExtra + HomeLimit + ContactLimit

----------------------------------------------------------------------------
(* Values. *)

\* Python's None / SQL NULL: request.form.get of a field the request lacks.
NULL == "~NULL~"
\* Texts a client sends: the empty string and a text with markup characters.
Text == {"", "<T>"}
NoCtx == "nobody"
Main == "main"
TableNames == {"projects", "posts", "messages"}

\* datetime.utcnow().isoformat(): one instant stands for the clock.
NowIso == "2025-01-01T00:00:00.000000"
\* created_at[:10]
DatePart(ts) == IF ts = NowIso THEN "2025-01-01" ELSE ts

\* Jinja's str() of a value: None prints as the four letters None.
Str(v) == IF v = NULL THEN "None" ELSE v
\* Jinja autoescape (markupsafe.escape) on the texts of the model.
Escape(s) ==
    CASE s = "<T>" -> "&lt;T&gt;"
      [] s = "<script>" -> "&lt;script&gt;"
      [] OTHER -> s
\* {{ v }} in a template rendered by render_template_string.
Render(v) == Escape(Str(v))
\* Python truthiness of a text or None.
Truthy(v) == v # NULL /\ v # ""

SampleProjectTitle == "Sample Project"
SamplePostTitle == "Welcome to my blog"
FlashProject == "Project added (demo)."
FlashPost == "Post added (demo)."
FlashContact == "Thanks! Your message has been received."

Min(a, b) == IF a < b THEN a ELSE b
Max(a, b) == IF a > b THEN a ELSE b

----------------------------------------------------------------------------
(* The store. *)

Ids(rows) == {r.id : r \in rows}

RECURSIVE MaxId(_)
MaxId(S) ==
    IF S = {} THEN 0
    ELSE LET x == CHOOSE y \in S : TRUE IN Max(x, MaxId(S \ {x}))

\* A rowid allocator that hands the largest rowid out again.
NextRowidReused(t) == Max(sqlite_sequence[t], MaxId(Ids(db[t])))

\* INTEGER PRIMARY KEY AUTOINCREMENT: one more than the largest rowid the table
\* has ever held (sqlite_sequence) or holds now.
NextRowid(t) == Max(sqlite_sequence[t], MaxId(Ids(db[t]))) + 1

\* ORDER BY id DESC
RECURSIVE OrderByIdDesc(_)
OrderByIdDesc(rows) ==
    IF rows = {} THEN <<>>
    ELSE LET top == CHOOSE r \in rows : \A q \in rows : q.id <= r.id
         IN <<top>> \o OrderByIdDesc(rows \ {top})

\* A query whose LIMIT clause was left out.
LimitIgnored(s, n) == s

\* LIMIT n
Limit(s, n) == SubSeq(s, 1, Min(n, Len(s)))

\* A query whose WHERE clause was left out.
SelectByIdNoWhere(rows, id) == rows

\* SELECT * FROM t WHERE id = ?  followed by fetchone(): the rows found.
SelectById(rows, id) == {r \in rows : r.id = id}

\* Whether sqlite3 can bind the Python int as a parameter of a statement.
Binds(n) == n <= IntMax

\* Column constraints of the CREATE TABLE statements: title TEXT NOT NULL.
NotNullOk(t, row) == t = "messages" \/ row.title # NULL

----------------------------------------------------------------------------
(* Rendering: what a response carries. *)

NoReq == [kind |-> "", arg |-> <<>>]
NoResp == [status |-> 0, location |-> "", error |-> "", title |-> "",
           flash |-> <<>>, page |-> "", body |-> <<>>]
NoPending == <<>>

\* redirect(url_for(endpoint)): 302 with a Location, nothing rendered.
Redirect(loc) == [NoResp EXCEPT !.status = 302, !.location = loc]
\* An exception that leaves the view: the server-error response.
ServerError(exc) == [NoResp EXCEPT !.status = 500, !.error = exc]

\* The shell: {{ title or 'Portfolio' }}, the alert with messages[0] when
\* get_flashed_messages() returned any, and {{ body|safe }}.
BASE_HTML(title, body, page, msgs) ==
    [NoResp EXCEPT !.status = 200,
                   !.title = Render(IF Truthy(title) THEN title ELSE "Portfolio"),
                   !.flash = IF msgs # <<>> THEN <<Render(msgs[1])>> ELSE <<>>,
                   !.page = page,
                   !.body = body]

\* <li> of a project on the home page and card of the projects page.
ProjectItem(p) ==
    [id |-> p.id, title |-> Render(p.title), description |-> Render(p.description)]
\* <li> of a post on the home page and on the blog page.
PostItem(post) ==
    [id |-> post.id, title |-> Render(post.title), date |-> Render(DatePart(post.created_at))]
\* <li> of a message on the contact page.  The page prints no id; row names the
\* row the item was rendered from (as it does in the two detail bodies).
MessageItem(m) ==
    [row |-> m.id, name |-> Render(m.name), message |-> Render(m.message),
     date |-> Render(DatePart(m.created_at))]

MapSeq(s, Op(_)) == [i \in 1..Len(s) |-> Op(s[i])]

HomeBody(ps, bs) ==
    [projects |-> MapSeq(Limit(OrderByIdDesc(ps), HomeLimit), ProjectItem),
     posts |-> MapSeq(Limit(OrderByIdDesc(bs), HomeLimit), PostItem)]
ProjectsBody(ps) == [projects |-> MapSeq(OrderByIdDesc(ps), ProjectItem)]
\* The blog listing ordered oldest first.
RECURSIVE OrderByIdAsc(_)
OrderByIdAsc(rows) ==
    IF rows = {} THEN <<>>
    ELSE LET low == CHOOSE r \in rows : \A q \in rows : r.id <= q.id
         IN <<low>> \o OrderByIdAsc(rows \ {low})
BlogBodyOldestFirst(bs) == [posts |-> MapSeq(OrderByIdAsc(bs), PostItem)]

BlogBody(bs) == [posts |-> MapSeq(OrderByIdDesc(bs), PostItem)]
ContactBody(ms) ==
    [messages |-> MapSeq(Limit(OrderByIdDesc(ms), ContactLimit), MessageItem)]
\* {% if p['url'] %} ... {% endif %}: the link is rendered only for a truthy url.
ProjectDetailBody(p) ==
    [row |-> p.id, title |-> Render(p.title), description |-> Render(p.description),
     details |-> Render(p.details),
     url |-> IF Truthy(p.url) THEN <<Render(p.url)>> ELSE <<>>]
PostDetailBody(post) ==
    [row |-> post.id, title |-> Render(post.title),
     date |-> Render(DatePart(post.created_at)), content |-> Render(post.content)]

----------------------------------------------------------------------------
(* Rows built by the INSERT statements. *)

ProjectRow(id, f) ==
    [id |-> id, title |-> f.title, description |-> f.description,
     details |-> f.details, url |-> f.url, created_at |-> NowIso]
PostRow(id, f) ==
    [id |-> id, title |-> f.title, content |-> f.content, created_at |-> NowIso]
MessageRow(id, f) ==
    [id |-> id, name |-> f.name, email |-> f.email, message |-> f.message,
     created_at |-> NowIso]

SampleProject ==
    [title |-> SampleProjectTitle, description |-> "sample description",
     details |-> "sample details", url |-> "https://example.com"]
SamplePost == [title |-> SamplePostTitle, content |-> "sample content"]

----------------------------------------------------------------------------
(* The connection of a context (flask.g) and SQLite's transaction on it. *)

\* A get_db that connects and does not keep the connection in g.
get_db_uncached(ctx) ==
    /\ connected' = [connected EXCEPT ![ctx] = @ + 1]
    /\ open_conns' = [open_conns EXCEPT ![ctx] = @ + 1]
    /\ UNCHANGED g

\* get_db: connect once per context and keep the connection in g._database.
get_db(ctx) ==
    IF g[ctx]
    THEN UNCHANGED <<g, connected, open_conns>>
    ELSE /\ g' = [g EXCEPT ![ctx] = TRUE]
         /\ connected' = [connected EXCEPT ![ctx] = @ + 1]
         /\ open_conns' = [open_conns EXCEPT ![ctx] = @ + 1]

\* close_connection, the teardown_appcontext function: close g._database when
\* set.  Closing rolls an open transaction back and gives the write lock up.
\* The context's g is discarded with the context.
close_connection(ctx) ==
    /\ IF g[ctx]
       THEN /\ open_conns' = [open_conns EXCEPT ![ctx] = @ - 1]
            /\ pending' = [pending EXCEPT ![ctx] = NoPending]
            /\ writer' = IF writer = ctx THEN NoCtx ELSE writer
       ELSE UNCHANGED <<open_conns, pending, writer>>
    /\ g' = [g EXCEPT ![ctx] = FALSE]
    /\ connected' = [connected EXCEPT ![ctx] = 0]

\* The tables after a commit of row into t.
Committed(t, row) == [db EXCEPT ![t] = @ \cup {row}]
Sequenced(t, row) == [sqlite_sequence EXCEPT ![t] = Max(@, row.id)]

----------------------------------------------------------------------------
(* Process entry point. *)

\* An init_db that inserts the sample rows without looking at the counts.
init_db_unconditional ==
    LET p == ProjectRow(NextRowid("projects"), SampleProject)
        b == PostRow(NextRowid("posts"), SamplePost)
    IN /\ tables' = tables \cup TableNames
       /\ db' = [db EXCEPT !.projects = @ \cup {p}, !.posts = @ \cup {b}]
       /\ sqlite_sequence' = [sqlite_sequence EXCEPT !.projects = p.id, !.posts = b.id]

\* if __name__ == '__main__': with app.app_context(): init_db().  init_db creates
\* the tables that are missing, commits, inserts a sample row into projects and
\* into posts when the table has none, and commits.
init_db ==
    LET p == ProjectRow(NextRowid("projects"), SampleProject)
        b == PostRow(NextRowid("posts"), SamplePost)
        addP == db.projects = {}
        addB == db.posts = {}
    IN /\ tables' = tables \cup TableNames
       /\ db' = [db EXCEPT !.projects = IF addP THEN {p} ELSE @,
                           !.posts = IF addB THEN {b} ELSE @]
       /\ sqlite_sequence' =
              [sqlite_sequence EXCEPT !.projects = IF addP THEN p.id ELSE @,
                                      !.posts = IF addB THEN b.id ELSE @]

main_init_db ==
    /\ main_pc = "start"
    /\ get_db(Main)
    /\ init_db
    /\ main_pc' = "init_db"
    /\ UNCHANGED <<restarts, writer, pending, pc, req, resp, flashes>>

\* Leaving the with block pops the application context: teardown runs, then
\* app.run serves.
main_teardown ==
    /\ main_pc = "init_db"
    /\ close_connection(Main)
    /\ main_pc' = "serving"
    /\ UNCHANGED <<restarts, tables, db, sqlite_sequence, pc, req, resp, flashes>>

----------------------------------------------------------------------------
(* Requests.  cfg names what a specification lets clients send:              *)
(* [clients, pforms, bforms, mforms, ids, listing, inserts].  The ids are    *)
(* what the <int:...> converter of the two detail routes passes on: any      *)
(* string of digits, as a Python int.                                        *)

Idle(c) == main_pc = "serving" /\ pc[c] = "idle"

Rows == Cardinality(db.projects) + Cardinality(db.posts) + Cardinality(db.messages)

TableLimit(t) == IF t = "messages" THEN ContactLimit ELSE HomeLimit

\* The bound on the tables: a write is sent only while there is room.  The two
\* sample rows are not counted against cfg.inserts.
Room(cfg, t) ==
    IF cfg.listing
    THEN Cardinality(db[t]) < TableLimit(t) + ListExtra
    ELSE Rows < cfg.inserts + 2

\* The handler has returned resp (or raised): what is left is the teardown.
Respond(c, kind, arg, r) ==
    /\ pc' = [pc EXCEPT ![c] = "teardown"]
    /\ req' = [req EXCEPT ![c] = [kind |-> kind, arg |-> arg]]
    /\ resp' = [resp EXCEPT ![c] = r]

\* return render_template_string(BASE_HTML, ...): get_flashed_messages() takes
\* every queued flash out of the session, the page shows the first.
Rendered(c, kind, arg, title, body) ==
    /\ Respond(c, kind, arg, BASE_HTML(title, body, kind, flashes[c]))
    /\ flashes' = [flashes EXCEPT ![c] = <<>>]

home(c) ==
    /\ Idle(c)
    /\ get_db(c)
    /\ Rendered(c, "home", <<>>, "Home", HomeBody(db.projects, db.posts))
    /\ UNCHANGED <<main_pc, restarts, tables, db, sqlite_sequence, writer, pending>>

about(c) ==
    /\ Idle(c)
    /\ Rendered(c, "about", <<>>, "About", <<>>)
    /\ UNCHANGED <<main_pc, restarts, tables, db, sqlite_sequence, writer, pending,
                   g, connected, open_conns>>

projects(c) ==
    /\ Idle(c)
    /\ get_db(c)
    /\ Rendered(c, "projects", <<>>, "Projects", ProjectsBody(db.projects))
    /\ UNCHANGED <<main_pc, restarts, tables, db, sqlite_sequence, writer, pending>>

project_detail(c, project_id) ==
    LET found == SelectById(db.projects, project_id)
    IN /\ Idle(c)
       /\ get_db(c)
       /\ IF ~Binds(project_id)
          THEN /\ Respond(c, "project_detail", <<project_id>>, ServerError("OverflowError"))
               /\ UNCHANGED flashes
          ELSE IF found = {}
          THEN /\ Respond(c, "project_detail", <<project_id>>, Redirect("/projects"))
               /\ UNCHANGED flashes
          ELSE LET p == CHOOSE r \in found : TRUE
               IN Rendered(c, "project_detail", <<project_id>>, p.title,
                           ProjectDetailBody(p))
       /\ UNCHANGED <<main_pc, restarts, tables, db, sqlite_sequence, writer, pending>>

blog(c) ==
    /\ Idle(c)
    /\ get_db(c)
    /\ Rendered(c, "blog", <<>>, "Blog", BlogBody(db.posts))
    /\ UNCHANGED <<main_pc, restarts, tables, db, sqlite_sequence, writer, pending>>

post_detail(c, post_id) ==
    LET found == SelectById(db.posts, post_id)
    IN /\ Idle(c)
       /\ get_db(c)
       /\ IF ~Binds(post_id)
          THEN /\ Respond(c, "post_detail", <<post_id>>, ServerError("OverflowError"))
               /\ UNCHANGED flashes
          ELSE IF found = {}
          THEN /\ Respond(c, "post_detail", <<post_id>>, Redirect("/blog"))
               /\ UNCHANGED flashes
          ELSE LET post == CHOOSE r \in found : TRUE
               IN Rendered(c, "post_detail", <<post_id>>, post.title,
                           PostDetailBody(post))
       /\ UNCHANGED <<main_pc, restarts, tables, db, sqlite_sequence, writer, pending>>

hobbies(c) ==
    /\ Idle(c)
    /\ Rendered(c, "hobbies", <<>>, "Hobbies", <<>>)
    /\ UNCHANGED <<main_pc, restarts, tables, db, sqlite_sequence, writer, pending,
                   g, connected, open_conns>>

contact_get(c) ==
    /\ Idle(c)
    /\ get_db(c)
    /\ Rendered(c, "contact", <<>>, "Contact", ContactBody(db.messages))
    /\ UNCHANGED <<main_pc, restarts, tables, db, sqlite_sequence, writer, pending>>

----------------------------------------------------------------------------
(* Write handlers: request.form.get of each field, db.execute(INSERT),       *)
(* db.commit(), flash, redirect.                                             *)

\* db.execute('INSERT ...') on the context's connection.  sqlite3 begins a
\* transaction and the statement takes the write lock; it raises
\*  - OperationalError when another connection holds the lock (database is
\*    locked) or the file cannot be written (ok = FALSE),
\*  - IntegrityError when a NOT NULL column gets None; the transaction that
\*    was begun stays open, with nothing in it, until the connection closes.
Execute(c, kind, form, t, row, ok) ==
    /\ Idle(c)
    /\ Len(flashes[c]) < MaxFlash
    /\ get_db(c)
    /\ req' = [req EXCEPT ![c] = [kind |-> kind, arg |-> <<form>>]]
    /\ IF writer # NoCtx \/ ~ok
       THEN /\ pc' = [pc EXCEPT ![c] = "teardown"]
            /\ resp' = [resp EXCEPT ![c] = ServerError("OperationalError")]
            /\ UNCHANGED <<writer, pending>>
       ELSE IF ~NotNullOk(t, row)
       THEN /\ pc' = [pc EXCEPT ![c] = "teardown"]
            /\ resp' = [resp EXCEPT ![c] = ServerError("IntegrityError")]
            /\ writer' = c
            /\ UNCHANGED pending
       ELSE /\ pc' = [pc EXCEPT ![c] = "inserted"]
            /\ pending' = [pending EXCEPT ![c] = <<t, row>>]
            /\ writer' = c
            /\ UNCHANGED resp
    /\ UNCHANGED <<main_pc, restarts, tables, db, sqlite_sequence, flashes>>

\* A write handler that calls flash before db.commit().
CommitFlashFirst(c, kind, message, listing, ok) ==
    /\ pc[c] = "inserted"
    /\ req[c].kind = kind
    /\ pc' = [pc EXCEPT ![c] = "teardown"]
    /\ flashes' = [flashes EXCEPT ![c] = Append(@, message)]
    /\ IF ok
       THEN /\ db' = Committed(pending[c][1], pending[c][2])
            /\ sqlite_sequence' = Sequenced(pending[c][1], pending[c][2])
            /\ pending' = [pending EXCEPT ![c] = NoPending]
            /\ writer' = NoCtx
            /\ resp' = [resp EXCEPT ![c] = Redirect(listing)]
       ELSE /\ resp' = [resp EXCEPT ![c] = ServerError("OperationalError")]
            /\ UNCHANGED <<db, sqlite_sequence, pending, writer>>
    /\ UNCHANGED <<main_pc, restarts, tables, req, g, connected, open_conns>>

\* db.commit(); flash(message); return redirect(url_for(listing)).  A commit
\* that fails (ok = FALSE) raises before flash is reached.
Commit(c, kind, message, listing, ok) ==
    /\ pc[c] = "inserted"
    /\ req[c].kind = kind
    /\ pc' = [pc EXCEPT ![c] = "teardown"]
    /\ IF ok
       THEN /\ db' = Committed(pending[c][1], pending[c][2])
            /\ sqlite_sequence' = Sequenced(pending[c][1], pending[c][2])
            /\ pending' = [pending EXCEPT ![c] = NoPending]
            /\ writer' = NoCtx
            /\ flashes' = [flashes EXCEPT ![c] = Append(@, message)]
            /\ resp' = [resp EXCEPT ![c] = Redirect(listing)]
       ELSE /\ resp' = [resp EXCEPT ![c] = ServerError("OperationalError")]
            /\ UNCHANGED <<db, sqlite_sequence, pending, writer, flashes>>
    /\ UNCHANGED <<main_pc, restarts, tables, req, g, connected, open_conns>>

add_project_execute(cfg, c, form, ok) ==
    /\ Room(cfg, "projects")
    /\ Execute(c, "add_project", form, "projects",
               ProjectRow(NextRowid("projects"), form), ok)

add_project_commit(c, ok) ==
    Commit(c, "add_project", FlashProject, "/projects", ok)

add_post_execute(cfg, c, form, ok) ==
    /\ Room(cfg, "posts")
    /\ Execute(c, "add_post", form, "posts", PostRow(NextRowid("posts"), form), ok)

add_post_commit(c, ok) ==
    Commit(c, "add_post", FlashPost, "/blog", ok)

contact_post_execute(cfg, c, form, ok) ==
    /\ Room(cfg, "messages")
    /\ Execute(c, "contact_post", form, "messages",
               MessageRow(NextRowid("messages"), form), ok)

contact_post_commit(c, ok) ==
    Commit(c, "contact_post", FlashContact, "/contact", ok)

\* The end of a request: the application context is popped, teardown runs,
\* the response goes to the client.
teardown_request(c) ==
    /\ pc[c] = "teardown"
    /\ close_connection(c)
    /\ pc' = [pc EXCEPT ![c] = "idle"]
    /\ req' = [req EXCEPT ![c] = NoReq]
    /\ resp' = [resp EXCEPT ![c] = NoResp]
    /\ UNCHANGED <<main_pc, restarts, tables, db, sqlite_sequence, flashes>>

\* The process is stopped between requests and started again on the same
\* database file.  app.secret_key = os.urandom(24) is drawn anew, so the
\* cookies signed with the old key no longer load: every session is empty.
restart(cfg) ==
    /\ main_pc = "serving"
    /\ \A c \in cfg.clients : pc[c] = "idle"
    /\ restarts < MaxRestarts
    /\ restarts' = restarts + 1
    /\ main_pc' = "start"
    /\ flashes' = [c \in cfg.clients |-> <<>>]
    /\ UNCHANGED <<tables, db, sqlite_sequence, writer, pending, g, connected,
                   open_conns, pc, req, resp>>

----------------------------------------------------------------------------
(* Specifications. *)

InitOver(cfg) ==
    /\ main_pc = "start"
    /\ restarts = 0
    /\ tables = {}
    /\ db = [t \in TableNames |-> {}]
    /\ sqlite_sequence = [t \in TableNames |-> 0]
    /\ writer = NoCtx
    /\ pending = [x \in cfg.clients \cup {Main} |-> NoPending]
    /\ g = [x \in cfg.clients \cup {Main} |-> FALSE]
    /\ connected = [x \in cfg.clients \cup {Main} |-> 0]
    /\ open_conns = [x \in cfg.clients \cup {Main} |-> 0]
    /\ pc = [c \in cfg.clients |-> "idle"]
    /\ req = [c \in cfg.clients |-> NoReq]
    /\ resp = [c \in cfg.clients |-> NoResp]
    /\ flashes = [c \in cfg.clients |-> <<>>]

NextOver(cfg) ==
    \/ main_init_db
    \/ main_teardown
    \/ restart(cfg)
    \/ \E c \in cfg.clients :
        \/ home(c)
        \/ about(c)
        \/ projects(c)
        \/ blog(c)
        \/ hobbies(c)
        \/ contact_get(c)
        \/ \E id \in cfg.ids : project_detail(c, id)
        \/ \E id \in cfg.ids : post_detail(c, id)
        \/ \E f \in cfg.pforms, ok \in BOOLEAN : add_project_execute(cfg, c, f, ok)
        \/ \E f \in cfg.bforms, ok \in BOOLEAN : add_post_execute(cfg, c, f, ok)
        \/ \E f \in cfg.mforms, ok \in BOOLEAN : contact_post_execute(cfg, c, f, ok)
        \/ \E ok \in BOOLEAN : add_project_commit(c, ok)
        \/ \E ok \in BOOLEAN : add_post_commit(c, ok)
        \/ \E ok \in BOOLEAN : contact_post_commit(c, ok)
        \/ teardown_request(c)

ProjectFields == {"title", "description", "details", "url"}
PostFields == {"title", "content"}
MessageFields == {"name", "email", "message"}

\* Every form over fields: each field absent, empty or a text.
Forms(fields) == [fields -> Text \cup {NULL}]
\* The form with every field set to v, and that form without the fields in absent.
Filled(fields, v, absent) == [a \in fields |-> IF a \in absent THEN NULL ELSE v]

\* Two concurrent clients; a full form for each handler and a project form
\* without its title; the ids of no row (0), of the first row a request adds
\* (2) and of more than 64 bits.
Concurrent ==
    [clients |-> {"c1", "c2"},
     pforms |-> {Filled(ProjectFields, "<T>", {}), Filled(ProjectFields, "<T>", {"title"})},
     bforms |-> {Filled(PostFields, "<T>", {})},
     mforms |-> {Filled(MessageFields, "<T>", {})},
     ids |-> {0, 2, IntMax + 1},
     listing |-> FALSE,
     inserts |-> MaxInserts]

Init == InitOver(Concurrent)
Next == NextOver(Concurrent)
Spec == Init /\ [][Next]_vars


\* One client, every form of every write handler.
EveryForm ==
    [clients |-> {"c1"},
     pforms |-> Forms(ProjectFields),
     bforms |-> Forms(PostFields),
     mforms |-> Forms(MessageFields),
     ids |-> 0..(FormInserts + 2) \cup {IntMax + 1},
     listing |-> FALSE,
     inserts |-> FormInserts]

InitForms == InitOver(EveryForm)
NextForms == NextOver(EveryForm)
SpecForms == InitForms /\ [][NextForms]_vars

\* One client, one form per handler, tables that outgrow the LIMITs.
Listing ==
    [clients |-> {"c1"},
     pforms |-> {Filled(ProjectFields, "<T>", {})},
     bforms |-> {Filled(PostFields, "<T>", {})},
     mforms |-> {Filled(MessageFields, "<T>", {})},
     ids |-> {0, 1, IntMax + 1},
     listing |-> TRUE,
     inserts |-> 0]

InitList == InitOver(Listing)
NextList == NextOver(Listing)
SpecList == InitList /\ [][NextList]_vars

----------------------------------------------------------------------------
(* Properties. *)

Clients == DOMAIN pc
WriteKinds == {"add_project", "add_post", "contact_post"}
\* Client c's handler runs to its response in this step (a read, or a write
\* that fails at the INSERT).
Handles(c, kind) == pc[c] = "idle" /\ pc'[c] = "teardown" /\ req'[c].kind = kind
\* Client c's commit succeeds in this step.
Commits(c, kind) == pc[c] = "inserted" /\ req[c].kind = kind /\ resp'[c].status = 302
SeqOf(items, Op(_)) == [i \in 1..Len(items) |-> Op(items[i])]
Range(s) == {s[i] : i \in 1..Len(s)}

\* C1: between two starts of the process, a queued flash leaves the session
\* only by being displayed: whenever a client's queue changes, either one
\* flash was appended to it by a successful write, or a page was rendered that
\* shows every flash that was queued (so each is shown on the next rendered
\* page, and on no later one, the queue being empty afterwards).
C1_FlashDisplayedExactlyOnce ==
    [][restarts' = restarts =>
        \A c \in Clients :
            flashes'[c] # flashes[c] =>
                \/ /\ \E k \in WriteKinds : Commits(c, k)
                   /\ Len(flashes'[c]) = Len(flashes[c]) + 1
                   /\ SubSeq(flashes'[c], 1, Len(flashes[c])) = flashes[c]
                \/ /\ flashes'[c] = <<>>
                   /\ resp'[c].status = 200
                   /\ resp'[c].flash = SeqOf(flashes[c], Escape)]_vars

\* C2: a write request that the store could serve is never a hard error,
\* whichever of its fields are absent: it is answered with the redirect to
\* its listing page.
C2_MissingFieldsNeverHardError ==
    \A c \in Clients :
        (pc[c] = "teardown" /\ req[c].kind \in WriteKinds
            /\ resp[c].error # "OperationalError") =>
            /\ resp[c].status = 302
            /\ resp[c].location = CASE req[c].kind = "add_project" -> "/projects"
                                    [] req[c].kind = "add_post" -> "/blog"
                                    [] OTHER -> "/contact"

\* C3: in every table a row that is added has an identifier greater than
\* that of every row the table held, and no two rows share an identifier.
C3_IdentifiersIncrease ==
    [][\A t \in TableNames :
          /\ \A r \in db'[t] \ db[t] : \A q \in db[t] : r.id > q.id
          /\ \A r, q \in db'[t] : r.id = q.id => r = q]_vars

C3_Witness ==
    /\ Cardinality(db.projects) >= 3
    /\ \A c \in Clients : flashes[c] = <<FlashProject>>

\* C4: a run of init_db leaves a table that holds rows as it is, gives an
\* empty projects table exactly the sample project and an empty posts table
\* exactly the sample post, and leaves messages alone.
C4_InitDbIdempotent ==
    [][(main_pc = "start" /\ main_pc' = "init_db") =>
          /\ db'.messages = db.messages
          /\ db.projects # {} => db'.projects = db.projects
          /\ db.posts # {} => db'.posts = db.posts
          /\ db.projects = {} =>
                /\ Cardinality(db'.projects) = 1
                /\ \A r \in db'.projects : r.title = SampleProjectTitle
          /\ db.posts = {} =>
                /\ Cardinality(db'.posts) = 1
                /\ \A r \in db'.posts : r.title = SamplePostTitle]_vars

C4_Witness ==
    /\ main_pc = "init_db"
    /\ restarts >= 1
    /\ Cardinality(db.projects) >= 2
    /\ Cardinality(db.posts) = 1
    /\ Cardinality(db.messages) >= 1

\* C5: GET /projects/{id} (GET /blog/{id}) for an id that no row has answers
\* with the redirect to /projects (/blog), queues no flash and changes no
\* table; for an id that a row has it answers 200 with the page of that row.
C5_Detail(c, kind, t, listing, covered(_)) ==
    (Handles(c, kind) /\ covered(req'[c].arg[1])) =>
        LET id == req'[c].arg[1]
        IN IF id \notin Ids(db[t])
           THEN /\ resp'[c].status = 302
                /\ resp'[c].location = listing
                /\ flashes' = flashes
                /\ db' = db
           ELSE /\ resp'[c].status = 200
                /\ resp'[c].body.row = id
                /\ \E r \in db[t] : r.id = id /\ resp'[c].body.title = Escape(r.title)
                /\ db' = db
AnyId(id) == TRUE

C5_MissingRowRedirects ==
    [][\A c \in Clients :
          /\ C5_Detail(c, "project_detail", "projects", "/projects", AnyId)
          /\ C5_Detail(c, "post_detail", "posts", "/blog", AnyId)]_vars

\* What holds of the two detail routes: the same, for the ids of at most 64 bits.
DetailOfBoundId ==
    [][\A c \in Clients :
          /\ C5_Detail(c, "project_detail", "projects", "/projects", Binds)
          /\ C5_Detail(c, "post_detail", "posts", "/blog", Binds)]_vars

\* C6: each limited listing shows the min(N, limit) rows of its table with
\* the largest identifiers, newest first: at most 3 projects and 3 posts on
\* the home page, at most 5 messages on the contact page.
IsNewest(shown, ids, limit) ==
    /\ Len(shown) = Min(Cardinality(ids), limit)
    /\ \A i \in 1..Len(shown) : shown[i] \in ids
    /\ \A i, j \in 1..Len(shown) : i < j => shown[i] > shown[j]
    /\ \A x \in ids \ Range(shown) : \A i \in 1..Len(shown) : x < shown[i]
ItemId(item) == item.id
ItemRow(item) == item.row

C6_LimitedListingsNewestFirst ==
    \A c \in Clients :
        /\ (pc[c] = "teardown" /\ req[c].kind = "home") =>
              /\ IsNewest(SeqOf(resp[c].body.projects, ItemId), Ids(db.projects), 3)
              /\ IsNewest(SeqOf(resp[c].body.posts, ItemId), Ids(db.posts), 3)
        /\ (pc[c] = "teardown" /\ req[c].kind = "contact") =>
              IsNewest(SeqOf(resp[c].body.messages, ItemRow), Ids(db.messages), 5)

C6_Witness ==
    \E c \in Clients :
        /\ pc[c] = "teardown"
        /\ req[c].kind = "contact"
        /\ Cardinality(db.messages) > 5
        /\ Cardinality(db.projects) > 3
        /\ Len(resp[c].body.messages) = 5

\* C7: a row committed by POST /blog/add (POST /projects/add) carries the
\* title and the content (description, details, url) of the form; no row is
\* ever removed or changed; every GET /blog (GET /projects) lists every row
\* of the table, newest first, with its title; and GET /blog/{id}
\* (GET /projects/{id}) of a row answers 200 with its title and its content.
C7_Listing(c, kind, t, field) ==
    Handles(c, kind) =>
        LET items == resp'[c].body[field]
        IN /\ resp'[c].status = 200
           /\ Len(items) = Cardinality(db[t])
           /\ \A r \in db[t] :
                 \E i \in 1..Len(items) :
                     items[i].id = r.id /\ items[i].title = Escape(r.title)
           /\ \A i, j \in 1..Len(items) : i < j => items[i].id > items[j].id

C7_ReadAfterWrite ==
    [][/\ \A t \in TableNames : db[t] \subseteq db'[t]
       /\ \A c \in Clients :
            /\ Commits(c, "add_post") =>
                  \E r \in db'.posts \ db.posts :
                      /\ r.title = req[c].arg[1].title
                      /\ r.content = req[c].arg[1].content
            /\ Commits(c, "add_project") =>
                  \E r \in db'.projects \ db.projects :
                      /\ r.title = req[c].arg[1].title
                      /\ r.description = req[c].arg[1].description
                      /\ r.details = req[c].arg[1].details
                      /\ r.url = req[c].arg[1].url
            /\ C7_Listing(c, "blog", "posts", "posts")
            /\ C7_Listing(c, "projects", "projects", "projects")
            /\ Handles(c, "post_detail") =>
                  \A r \in db.posts :
                      r.id = req'[c].arg[1] =>
                          /\ resp'[c].status = 200
                          /\ resp'[c].body.title = Escape(r.title)
                          /\ r.content # NULL =>
                                resp'[c].body.content = Escape(r.content)
            /\ Handles(c, "project_detail") =>
                  \A r \in db.projects :
                      r.id = req'[c].arg[1] =>
                          /\ resp'[c].status = 200
                          /\ resp'[c].body.title = Escape(r.title)
                          /\ r.details # NULL =>
                                resp'[c].body.details = Escape(r.details)]_vars

C7_Witness ==
    \E c \in Clients :
        /\ pc[c] = "teardown"
        /\ req[c].kind = "post_detail"
        /\ req[c].arg[1] >= 2
        /\ resp[c].status = 200
        /\ resp[c].body.title = "&lt;T&gt;"
        /\ resp[c].body.content = "&lt;T&gt;"

\* C8: a context opens at most one connection; an open connection is the one
\* kept in its own context's g; outside a context (no request in flight, the
\* start-up context left) nothing it opened is open; the write lock and an
\* uncommitted row belong to a context with an open connection.
InContext(x) == IF x = Main THEN main_pc = "init_db" ELSE pc[x] # "idle"

C8_OneConnectionPerContext ==
    \A x \in DOMAIN g :
        /\ connected[x] <= 1
        /\ open_conns[x] <= 1
        /\ open_conns[x] = (IF g[x] THEN 1 ELSE 0)
        /\ ~InContext(x) => (open_conns[x] = 0 /\ pending[x] = NoPending /\ writer # x)
        /\ (writer = x \/ pending[x] # NoPending) => open_conns[x] = 1

C8_Witness ==
    \E c, d \in Clients :
        /\ c # d
        /\ pc[c] = "idle"
        /\ flashes[c] # <<>>
        /\ pc[d] = "teardown"
        /\ resp[d].status = 500
        /\ open_conns[d] = 1
        /\ restarts >= 1

\* C9: a page shows the empty string wherever the field it displays is empty
\* or NULL in the row: a project's description (home, projects, detail) and
\* details (detail), a post's content (detail), a message's name and body
\* (contact); a project's empty or NULL url is not shown at all.
Blank(v) == v = NULL \/ v = ""
RowOf(rows, id) == CHOOSE r \in rows : r.id = id

C9_ProjectItems(items) ==
    \A i \in 1..Len(items) :
        Blank(RowOf(db.projects, items[i].id).description) => items[i].description = ""

C9_EmptyFieldsRenderEmpty ==
    \A c \in Clients :
        (pc[c] = "teardown" /\ resp[c].status = 200) =>
            LET body == resp[c].body
            IN /\ resp[c].page \in {"home", "projects"} => C9_ProjectItems(body.projects)
               /\ resp[c].page = "project_detail" =>
                     LET r == RowOf(db.projects, body.row)
                     IN /\ Blank(r.description) => body.description = ""
                        /\ Blank(r.details) => body.details = ""
                        /\ Blank(r.url) => body.url = <<>>
               /\ resp[c].page = "post_detail" =>
                     (Blank(RowOf(db.posts, body.row).content) => body.content = "")
               /\ resp[c].page = "contact" =>
                     \A i \in 1..Len(body.messages) :
                         LET r == RowOf(db.messages, body.messages[i].row)
                         IN /\ Blank(r.name) => body.messages[i].name = ""
                            /\ Blank(r.message) => body.messages[i].message = ""

\* C10: a write request that fails at the store changes no table and no
\* session: the step in which its INSERT or its commit raises leaves the
\* tables, the sequences and every flash queue as they were, and so does its
\* teardown, after which its connection is closed, its uncommitted row is gone
\* and the write lock is not its own.  A flash is queued only in the step
\* whose commit put the row in its table, and an uncommitted row is in no table.
C10_FailedWriteLeavesNoTrace ==
    [][\A c \in Clients :
          /\ (req'[c].kind \in WriteKinds /\ resp[c].status # 500
                /\ resp'[c].status = 500) =>
                /\ db' = db
                /\ sqlite_sequence' = sqlite_sequence
                /\ flashes' = flashes
          /\ (pc[c] = "teardown" /\ resp[c].status = 500 /\ pc'[c] = "idle") =>
                /\ db' = db
                /\ sqlite_sequence' = sqlite_sequence
                /\ flashes' = flashes
                /\ pending'[c] = NoPending
                /\ writer' # c
                /\ open_conns'[c] = 0
          /\ Len(flashes'[c]) > Len(flashes[c]) =>
                /\ pending[c] # NoPending
                /\ pending[c][2] \in db'[pending[c][1]]
                /\ resp'[c].status = 302
          /\ pending'[c] # NoPending => pending'[c][2] \notin db'[pending'[c][1]]]_vars

C10_Witness ==
    \E c, d \in Clients :
        /\ c # d
        /\ pc[c] = "teardown"
        /\ resp[c].status = 500
        /\ pending[c] # NoPending
        /\ flashes[d] # <<>>

====
